---- MODULE Spec2Model ----
(***************************************************************************)
(* Hamming(7,4) file codec of cpphamming.                                  *)
(*                                                                         *)
(* Two variants are modelled from the source:                              *)
(*   - the three programs hamming_enc / hamming_err / hamming_dec, whose   *)
(*     scans run backward over a shrinking buffer, and                     *)
(*   - the combined program hamming.cpp (mode "0" encodes and injects      *)
(*     errors in one pass, mode "1" recovers), whose scans run forward.    *)
(* The operators of the combined program carry the prefix hamming_ (its    *)
(* file name) where the name is also used by the three programs.           *)
(*                                                                         *)
(* A bit vector is a sequence over {0,1}; C index k is TLA+ index k+1.     *)
(***************************************************************************)
EXTENDS Integers, Sequences, FiniteSets, TLC

(* ----------------------------- bounds ---------------------------------- *)

\* Longest input file, in bytes, of the file pipelines.
MaxLen == 2

\* Most groups one noise pass (or one mode "0" run) corrupts in the pipelines.
MaxFlips == 2

\* Most bit flips applied to the single codeword of the block machine.
MaxBlockFlips == 2

\* The largest number of bytes of a stored file given to hamming_err or to
\* a decoder directly.
MaxFileLen == 3

\* The largest number of characters of a mode argument made of ModeChars.
MaxArgLen == 2

\* The largest number of bits of a vector handed to bitsToBytes directly.
MaxBits == 9

\* The largest number of bytes of an input of the scan machine.
MaxScanLen == 2

\* The largest number of runs of hamming_err over one file.
MaxPasses == 2

(* ------------------------- program constants --------------------------- *)

\* randomIntNum(0, 6) == 4: the draw that triggers the corruption of a group.
Sentinel == 4

\* randomIntNum(0, 6): the largest value a draw can take.
MaxDraw == 6

\* Largest value of an unsigned char.
MaxByte == 255

\* The value str2int gives the empty string, and its multiplier.
HashSeed == 5381

HashFactor == 33

Draws == 0..MaxDraw

Bit == {0, 1}

(* ------------------------------ helpers -------------------------------- *)

\* std::reverse over a whole vector.
Reverse(s) == [k \in 1..Len(s) |-> s[Len(s) + 1 - k]]

\* !x on a bit.
Not(b) == IF b = 0 THEN 1 ELSE 0

\* (x >> w) & 1
ShiftBit(x, w) == (x \div (2 ^ w)) % 2

\* v[idx] = !v[idx], idx a C (0-based) index.
FlipAt(v, idx) == [v EXCEPT ![idx + 1] = Not(v[idx + 1])]

\* Concatenation of a sequence of sequences, in order.
RECURSIVE Flatten(_)
Flatten(ss) == IF ss = <<>> THEN <<>> ELSE Head(ss) \o Flatten(Tail(ss))

(* ------------------- bytes <-> bits, three programs -------------------- *)

\* Mutant of oneByteBits: the bits of a byte are taken from bit 0 upward.
oneByteBits_lsbFirst(c) == [k \in 1..8 |-> ShiftBit(c, k - 1)]

\* Inner loop of bytesToBits: the bits of one byte pushed for o = 7..0.
oneByteBits(c) == [k \in 1..8 |-> ShiftBit(c, 8 - k)]

\* Outer loop of bytesToBits: the bytes are visited from the last to the
\* first, the buffer is cut back to the byte being read, and the reversed
\* bits of each byte are appended.
RECURSIVE bytesToBitsScan(_, _, _)
bytesToBitsScan(bytesArray, bytesArrayCount, boolBitsArray) ==
    IF bytesArrayCount > -1
    THEN bytesToBitsScan(SubSeq(bytesArray, 1, bytesArrayCount + 1),
                         bytesArrayCount - 1,
                         boolBitsArray
                           \o Reverse(oneByteBits(bytesArray[bytesArrayCount + 1])))
    ELSE boolBitsArray

bytesToBits(bytesArray) ==
    Reverse(bytesToBitsScan(bytesArray, Len(bytesArray) - 1, <<>>))

\* Mutant of padToByte: the test (size % 8) > 0 is left out, so a vector that
\* is already byte aligned gets eight more zeros.
padToByte_always(bitsArray, byteAdjust) ==
    LET boolBitsArraySize == Len(bitsArray)
        adjustFactor == (((boolBitsArraySize \div 8) + 1) * 8) - boolBitsArraySize
    IN  IF byteAdjust = 1
        THEN bitsArray \o [z \in 1..adjustFactor |-> 0]
        ELSE bitsArray

\* Mutant of padToByte: the remainder size % 8 itself is taken as the number
\* of zeros.
padToByte_remainder(bitsArray, byteAdjust) ==
    LET boolBitsArraySize == Len(bitsArray)
        adjustFactor == boolBitsArraySize % 8
    IN  IF byteAdjust = 1 /\ (boolBitsArraySize % 8) > 0
        THEN bitsArray \o [z \in 1..adjustFactor |-> 0]
        ELSE bitsArray

\* byteAdjust == 1: zeros appended up to the next multiple of 8.
padToByte(bitsArray, byteAdjust) ==
    LET boolBitsArraySize == Len(bitsArray)
        adjustFactor == (((boolBitsArraySize \div 8) + 1) * 8) - boolBitsArraySize
    IN  IF byteAdjust = 1 /\ (boolBitsArraySize % 8) > 0
        THEN bitsArray \o [z \in 1..adjustFactor |-> 0]
        ELSE bitsArray

\* Mutant of charByte: the shifts of the forward-scanning program are used
\* on the backward-collected bits.
charByte_forward(bit8Array) ==
      bit8Array[8]       + bit8Array[7] * 2   + bit8Array[6] * 4
    + bit8Array[5] * 8   + bit8Array[4] * 16  + bit8Array[3] * 32
    + bit8Array[2] * 64  + bit8Array[1] * 128

\* charByte of the three programs: bit8Array[j] << j, j = 0..7.
charByte(bit8Array) ==
      bit8Array[1]       + bit8Array[2] * 2   + bit8Array[3] * 4
    + bit8Array[4] * 8   + bit8Array[5] * 16  + bit8Array[6] * 32
    + bit8Array[7] * 64  + bit8Array[8] * 128

\* Backward scan of bitsToBytes: bits are collected from the end, eight at a
\* time; every full group cuts the buffer back and yields one byte.
RECURSIVE bitsToBytesScan(_, _, _, _)
bitsToBytesScan(bitsArray, boolBitsArrayCount, bit8Array, bytesArray) ==
    IF boolBitsArrayCount > -1
    THEN LET b8 == IF Len(bit8Array) < 8
                   THEN Append(bit8Array, bitsArray[boolBitsArrayCount + 1])
                   ELSE bit8Array
         IN  IF Len(b8) = 8
             THEN bitsToBytesScan(SubSeq(bitsArray, 1, boolBitsArrayCount + 1),
                                  boolBitsArrayCount - 1, <<>>,
                                  Append(bytesArray, charByte(b8)))
             ELSE bitsToBytesScan(bitsArray, boolBitsArrayCount - 1, b8, bytesArray)
    ELSE bytesArray

bitsToBytes(bitsArray, byteAdjust) ==
    LET padded == padToByte(bitsArray, byteAdjust)
    IN  Reverse(bitsToBytesScan(padded, Len(padded) - 1, <<>>, <<>>))

(* --------------------- parity arithmetic (shared) ---------------------- *)

\* Mutant of dataPos: the last data bit is given the position 4 of a parity
\* bit.
dataPos_parityPos(z) == CASE z = 0 -> 7 [] z = 1 -> 6 [] z = 2 -> 5 [] z = 3 -> 4

\* switch(z): the Hamming position of data bit z of a nibble.
dataPos(z) == CASE z = 0 -> 7 [] z = 1 -> 6 [] z = 2 -> 5 [] z = 3 -> 3

\* The three bits of f pushed for w = 2..0.
posBits(f) == <<ShiftBit(f, 2), ShiftBit(f, 1), ShiftBit(f, 0)>>

\* xorParity: the 3-bit expansions of the positions of the data bits equal
\* to 1, in the order z = 0..3.
RECURSIVE xorParityFrom(_, _)
xorParityFrom(bit4Array, z) ==
    IF z < 4
    THEN (IF bit4Array[z + 1] = 1 THEN posBits(dataPos(z)) ELSE <<>>)
           \o xorParityFrom(bit4Array, z + 1)
    ELSE <<>>

\* Mutant of xorColumn: the even and the odd branch are exchanged.
xorColumn_evenOdd(xorBits, octalBitGroupPos) ==
    LET xorNumCount ==
          Cardinality({c \in 0..((Len(xorBits) \div 3) - 1) :
                          xorBits[octalBitGroupPos + 3 * c + 1] = 1})
    IN  IF Len(xorBits) > 0 /\ xorNumCount % 2 = 0 THEN 1 ELSE 0

\* One column of the list of 3-bit groups: 1 when the number of ones at
\* offsets g, g+3, g+6, ... is odd, 0 when it is even (0 for an empty list).
xorColumn(xorBits, octalBitGroupPos) ==
    LET xorNumCount ==
          Cardinality({c \in 0..((Len(xorBits) \div 3) - 1) :
                          xorBits[octalBitGroupPos + 3 * c + 1] = 1})
    IN  IF Len(xorBits) > 0 /\ xorNumCount % 2 # 0 THEN 1 ELSE 0

\* Mutant of parityBits: the columns are taken as P1, P2, P4.
parityBits_reversed(bit4Array) ==
    LET xorParity == xorParityFrom(bit4Array, 0)
    IN  <<xorColumn(xorParity, 2), xorColumn(xorParity, 1), xorColumn(xorParity, 0)>>

\* parityBits[0..2] = P4, P2, P1.
parityBits(bit4Array) ==
    LET xorParity == xorParityFrom(bit4Array, 0)
    IN  <<xorColumn(xorParity, 0), xorColumn(xorParity, 1), xorColumn(xorParity, 2)>>

(* ------------------------ hamming_enc: encode -------------------------- *)

\* Mutant of hamming7Bits: D3 and P4 are stored in each other's slot.
hamming7Bits_swapped(bit4Array) ==
    LET p == parityBits(bit4Array)
    IN  <<p[3], p[2], p[1], bit4Array[4], bit4Array[3], bit4Array[2], bit4Array[1]>>

\* hamming7Bits[0..6] of hamming_enc = P1, P2, D3, P4, D5, D6, D7: the group
\* is stored back to front because the whole output is reversed at the end.
hamming7Bits(bit4Array) ==
    LET p == parityBits(bit4Array)
    IN  <<p[3], p[2], bit4Array[4], p[1], bit4Array[3], bit4Array[2], bit4Array[1]>>

\* Mutant of addHammingParityScan: the four collected bits are not cleared
\* after a group was emitted.
RECURSIVE addHammingParityScan_noClear(_, _, _, _)
addHammingParityScan_noClear(boolBitsArray, boolBitsArrayCount, bit4Array, hammingBits) ==
    IF boolBitsArrayCount > -1
    THEN LET b4 == IF Len(bit4Array) < 4
                   THEN Append(bit4Array, boolBitsArray[boolBitsArrayCount + 1])
                   ELSE bit4Array
         IN  IF Len(b4) = 4
             THEN addHammingParityScan_noClear(
                      SubSeq(boolBitsArray, 1, boolBitsArrayCount + 1),
                      boolBitsArrayCount - 1, b4,
                      hammingBits \o hamming7Bits(Reverse(b4)))
             ELSE addHammingParityScan_noClear(
                      boolBitsArray, boolBitsArrayCount - 1, b4, hammingBits)
    ELSE hammingBits

\* Backward scan of addHammingParity: bits are collected from the end, four
\* at a time; every full group cuts the buffer back, is put in stream order
\* and yields seven bits.
RECURSIVE addHammingParityScan(_, _, _, _)
addHammingParityScan(boolBitsArray, boolBitsArrayCount, bit4Array, hammingBits) ==
    IF boolBitsArrayCount > -1
    THEN LET b4 == IF Len(bit4Array) < 4
                   THEN Append(bit4Array, boolBitsArray[boolBitsArrayCount + 1])
                   ELSE bit4Array
         IN  IF Len(b4) = 4
             THEN addHammingParityScan(SubSeq(boolBitsArray, 1, boolBitsArrayCount + 1),
                                       boolBitsArrayCount - 1, <<>>,
                                       hammingBits \o hamming7Bits(Reverse(b4)))
             ELSE addHammingParityScan(boolBitsArray, boolBitsArrayCount - 1,
                                       b4, hammingBits)
    ELSE hammingBits

addHammingParity(boolBitsArray) ==
    Reverse(addHammingParityScan(boolBitsArray, Len(boolBitsArray) - 1, <<>>, <<>>))

\* hamming_enc: bytes of the input file to bytes of the encoded file.
applyHamming(fileBytes) == bitsToBytes(addHammingParity(bytesToBits(fileBytes)), 1)

(* ------------------------- hamming_err: noise -------------------------- *)

\* forLimit: the largest multiple of 7 that fits in the bit vector.
forLimit(boolBitsArray) == (Len(boolBitsArray) \div 7) * 7

\* Mutant of hammingErrorGroup: the offset of the group is not added to the
\* drawn position.
hammingErrorGroup_noOffset(boolBitsArray, boolBitsArrayCount, r1, r2) ==
    IF r1 = Sentinel
    THEN FlipAt(boolBitsArray, r2)
    ELSE boolBitsArray

\* hammingError counting the offset from the end of the vector.
hammingErrorGroup_fromEnd(boolBitsArray, boolBitsArrayCount, r1, r2) ==
    IF r1 = Sentinel
    THEN FlipAt(boolBitsArray,
                Len(boolBitsArray) - 1 - (boolBitsArrayCount + r2))
    ELSE boolBitsArray

\* Mutant of hammingErrorGroup: the first draw is tested for being non-zero
\* instead of being compared with 4.
hammingErrorGroup_nonZero(boolBitsArray, boolBitsArrayCount, r1, r2) ==
    IF r1 # 0
    THEN FlipAt(boolBitsArray, boolBitsArrayCount + r2)
    ELSE boolBitsArray

\* Mutant of hammingErrorGroup: the inverted bit is pushed at the end of the
\* vector instead of being stored in its place.
hammingErrorGroup_pushBack(boolBitsArray, boolBitsArrayCount, r1, r2) ==
    IF r1 = Sentinel
    THEN Append(boolBitsArray, Not(boolBitsArray[boolBitsArrayCount + r2 + 1]))
    ELSE boolBitsArray

\* One iteration of the loop of hammingError on the group that starts at
\* boolBitsArrayCount, for a first draw r1 and (when it is made) a second
\* draw r2.
hammingErrorGroup(boolBitsArray, boolBitsArrayCount, r1, r2) ==
    IF r1 = Sentinel
    THEN FlipAt(boolBitsArray, boolBitsArrayCount + r2)
    ELSE boolBitsArray

\* The generator as randomIntNum sees it: its static flag first, and log,
\* the calls made to the C library so far, oldest first.
FreshRng == [first |-> TRUE, log |-> <<>>]

\* Mutant of randomIntNum: the flag first is never cleared.
randomIntNum_reseed(rng) ==
    [first |-> rng.first,
     log   |-> rng.log \o (IF rng.first THEN <<"srand">> ELSE <<>>)
                       \o <<"rand">>]

\* One call of randomIntNum: srand on the first call only, then rand.  The
\* value returned, min + rand() % (max + 1 - min), is any element of Draws.
randomIntNum(rng) ==
    [first |-> FALSE,
     log   |-> rng.log \o (IF rng.first THEN <<"srand">> ELSE <<>>)
                       \o <<"rand">>]

(* ------------------------ hamming_dec: decode -------------------------- *)

\* xorOddBitsPos: the 3-bit expansions of the positions 7 - index of the
\* bits equal to 1, in index order.
RECURSIVE xorOddBitsPosFrom(_, _)
xorOddBitsPosFrom(hamming7Bit, hamming7BitCount) ==
    IF hamming7BitCount < Len(hamming7Bit)
    THEN (IF hamming7Bit[hamming7BitCount + 1] = 1
          THEN posBits(7 - hamming7BitCount) ELSE <<>>)
           \o xorOddBitsPosFrom(hamming7Bit, hamming7BitCount + 1)
    ELSE <<>>

\* Mutant of flipBit: the three columns are weighted back to front.
flipBit_reversed(hamming7Bit) ==
    LET xorOddBitsPos == xorOddBitsPosFrom(hamming7Bit, 0)
    IN    xorColumn(xorOddBitsPos, 0)
        + xorColumn(xorOddBitsPos, 1) * 2
        + xorColumn(xorOddBitsPos, 2) * 4

\* flipBit before the test flipBit > 0: corrPosBits[5..7] are the three
\* columns, corrPosBits[0..4] stay 0.
flipBit(hamming7Bit) ==
    LET xorOddBitsPos == xorOddBitsPosFrom(hamming7Bit, 0)
    IN    xorColumn(xorOddBitsPos, 2)
        + xorColumn(xorOddBitsPos, 1) * 2
        + xorColumn(xorOddBitsPos, 0) * 4

\* Mutant of correctedWord: the position is used as the vector index
\* without the conversion 7 - flipBit.
correctedWord_indexIsPos(hamming7Bit) ==
    IF flipBit(hamming7Bit) > 0
    THEN FlipAt(hamming7Bit, flipBit(hamming7Bit) - 1)
    ELSE hamming7Bit

\* Mutant of correctedWord: the correction is never applied.
correctedWord_noFlip(hamming7Bit) == hamming7Bit

\* Mutant of correctedWord: a syndrome that names a parity position (4, 2 or
\* 1) is not acted on.
correctedWord_dataOnly(hamming7Bit) ==
    IF flipBit(hamming7Bit) \in {3, 5, 6, 7}
    THEN FlipAt(hamming7Bit, 7 - flipBit(hamming7Bit))
    ELSE hamming7Bit

\* hamming7Bit after the flip-or-no-flip step.
correctedWord(hamming7Bit) ==
    IF flipBit(hamming7Bit) > 0
    THEN FlipAt(hamming7Bit, 7 - flipBit(hamming7Bit))
    ELSE hamming7Bit

\* Mutant of hammingCorrection: index 3 (P4) is pushed instead of index 2.
hammingCorrection_parityIndex(hamming7Bit) ==
    LET c == correctedWord(hamming7Bit)
    IN  <<c[5], c[4], c[2], c[1]>>

\* Mutant of hammingCorrection: the last push_back is missing.
hammingCorrection_threeBits(hamming7Bit) ==
    LET c == correctedWord(hamming7Bit)
    IN  <<c[5], c[3], c[2]>>

\* Mutant of hammingCorrection: the data bits are taken from the word as it
\* came in, before the flip.
hammingCorrection_beforeFlip(hamming7Bit) ==
    <<hamming7Bit[5], hamming7Bit[3], hamming7Bit[2], hamming7Bit[1]>>

\* hammingCorrection of hamming_dec: the data bits are pushed from index 4,
\* 2, 1, 0, that is back to front.
hammingCorrection(hamming7Bit) ==
    LET c == correctedWord(hamming7Bit)
    IN  <<c[5], c[3], c[2], c[1]>>

\* Backward scan of removeHammingParity, started below the largest multiple
\* of 7: every full group of seven cuts the buffer back, is put in stream
\* order and is corrected.
RECURSIVE removeHammingParityScan(_, _, _, _)
removeHammingParityScan(boolBitsArray, boolBitsArrayCount, bit7Array, originalBits) ==
    IF boolBitsArrayCount > -1
    THEN LET b7 == IF Len(bit7Array) < 7
                   THEN Append(bit7Array, boolBitsArray[boolBitsArrayCount + 1])
                   ELSE bit7Array
         IN  IF Len(b7) = 7
             THEN removeHammingParityScan(SubSeq(boolBitsArray, 1, boolBitsArrayCount + 1),
                                          boolBitsArrayCount - 1, <<>>,
                                          originalBits \o hammingCorrection(Reverse(b7)))
             ELSE removeHammingParityScan(boolBitsArray, boolBitsArrayCount - 1,
                                          b7, originalBits)
    ELSE originalBits

\* Mutant of removeHammingParity: the final std::reverse is left out.
removeHammingParity_noReverse(boolBitsArray) ==
    removeHammingParityScan(boolBitsArray,
                            ((Len(boolBitsArray) \div 7) * 7) - 1, <<>>, <<>>)

removeHammingParity(boolBitsArray) ==
    Reverse(removeHammingParityScan(boolBitsArray,
                                    ((Len(boolBitsArray) \div 7) * 7) - 1, <<>>, <<>>))

\* hamming_dec: bytes of the encoded file to bytes of the recovered file.
recoverHamming(fileBytes) == bitsToBytes(removeHammingParity(bytesToBits(fileBytes)), 0)

(* ------------------- hamming.cpp: the combined program ----------------- *)

\* bytesToBits of hamming.cpp: forward over the bytes, each pushed for
\* o = 7..0.
hamming_bytesToBits(bytesArray) ==
    Flatten([k \in 1..Len(bytesArray) |-> oneByteBits(bytesArray[k])])

\* charByte of hamming.cpp: bit8Array[j] << (7 - j), j = 0..7.
hamming_charByte(bit8Array) ==
      bit8Array[8]       + bit8Array[7] * 2   + bit8Array[6] * 4
    + bit8Array[5] * 8   + bit8Array[4] * 16  + bit8Array[3] * 32
    + bit8Array[2] * 64  + bit8Array[1] * 128

\* Forward scan of bitsToBytes of hamming.cpp.
RECURSIVE hamming_bitsToBytesScan(_, _, _, _)
hamming_bitsToBytesScan(bitsArray, intBitsArrayCount, bit8Array, bytesArray) ==
    IF intBitsArrayCount < Len(bitsArray)
    THEN LET b8 == IF Len(bit8Array) < 8
                   THEN Append(bit8Array, bitsArray[intBitsArrayCount + 1])
                   ELSE bit8Array
         IN  IF Len(b8) = 8
             THEN hamming_bitsToBytesScan(bitsArray, intBitsArrayCount + 1, <<>>,
                                          Append(bytesArray, hamming_charByte(b8)))
             ELSE hamming_bitsToBytesScan(bitsArray, intBitsArrayCount + 1,
                                          b8, bytesArray)
    ELSE bytesArray

hamming_bitsToBytes(bitsArray, byteAdjust) ==
    hamming_bitsToBytesScan(padToByte(bitsArray, byteAdjust), 0, <<>>, <<>>)

\* Mutant of hamming_hamming7Bits: the error injection is left out.
hamming_hamming7Bits_noNoise(bit4Array, r1, r2) ==
    LET p == parityBits(bit4Array)
    IN  <<bit4Array[1], bit4Array[2], bit4Array[3], p[1],
          bit4Array[4], p[2], p[3]>>

\* hamming7Bits[0..6] of hamming.cpp = D7, D6, D5, P4, D3, P2, P1, followed by
\* the error injection for a first draw r1 and a second draw r2.
hamming_hamming7Bits(bit4Array, r1, r2) ==
    LET p == parityBits(bit4Array)
        h == <<bit4Array[1], bit4Array[2], bit4Array[3], p[1],
               bit4Array[4], p[2], p[3]>>
    IN  IF r1 = Sentinel THEN FlipAt(h, r2) ELSE h

\* Mutant of hammingCorrection of hamming.cpp: index 3 (P4) is pushed
\* instead of index 4.
hamming_hammingCorrection_parityIndex(hamming7Bit) ==
    LET c == correctedWord(hamming7Bit)
    IN  <<c[1], c[2], c[3], c[4]>>

\* hammingCorrection of hamming.cpp: the data bits are pushed from index 0,
\* 1, 2, 4, that is in stream order.
hamming_hammingCorrection(hamming7Bit) ==
    LET c == correctedWord(hamming7Bit)
    IN  <<c[1], c[2], c[3], c[5]>>

\* Forward scan of hammingRecover up to forLimit.
RECURSIVE hammingRecoverScan(_, _, _, _)
hammingRecoverScan(intBitsArray, intBitsArrayCount, bit7Array, originalBits) ==
    IF intBitsArrayCount < forLimit(intBitsArray)
    THEN LET b7 == IF Len(bit7Array) < 7
                   THEN Append(bit7Array, intBitsArray[intBitsArrayCount + 1])
                   ELSE bit7Array
         IN  IF Len(b7) = 7
             THEN hammingRecoverScan(intBitsArray, intBitsArrayCount + 1, <<>>,
                                     originalBits \o hamming_hammingCorrection(b7))
             ELSE hammingRecoverScan(intBitsArray, intBitsArrayCount + 1,
                                     b7, originalBits)
    ELSE originalBits

hammingRecover(intBitsArray) == hammingRecoverScan(intBitsArray, 0, <<>>, <<>>)

\* Mode "1" of hamming.cpp: bytes of the encoded file to bytes of the
\* recovered file.
removeHamming(fileBytes) ==
    hamming_bitsToBytes(hammingRecover(hamming_bytesToBits(fileBytes)), 0)

(* ----------------------------- the machines ---------------------------- *)

VARIABLES
    variant,   \* "three": hamming_enc/_err/_dec;  "combined": hamming.cpp
    input,     \* the bytes of the original file
    pc,        \* "start", "apply", "stored", "err", "done" (pipelines);
               \* "nibble", "sent", "decoded" (block machine)
    file,      \* the bytes of the encoded (possibly corrupted) file
    bits,      \* the bit vector the running loop works on
    count,     \* the index of the running loop (a bit index)
    flips,     \* the groups corrupted by the running pass
    passes,    \* the hamming_err passes completed on the file
    out,       \* the bytes of the recovered file
    nibble,    \* block machine: the four data bits
    sent,      \* block machine: the codeword the encoder produced
    word,      \* block machine: the codeword after the flips
    errs,      \* block machine: the positions (1..7) flipped so far
    syndrome,  \* block machine: flipBit as assembled by the decoder
    fixed,     \* block machine: the word after the flip-or-no-flip step
    decoded,   \* block machine: the bits hammingCorrection returns
    rng,       \* the state of randomIntNum in the running process
    drawn,     \* the values the last iteration of hammingError drew
    prog,      \* run machine: the program that was started
    argv,      \* run machine: the mode argument, if the program takes one
    source,    \* run machine: what the input path names
    vec,       \* run machine: the bytes readFileBytes returned
    called,    \* run machine: the function main called
    shown,     \* run machine: the message main printed
    target,    \* run machine: the state of the output path
    status,    \* run machine: how the process ended
    adjust,    \* adapter machine: the byteAdjust of the last bitsToBytes
    twin,      \* twin machine: hammingBits of hamming.cpp, then its file
    op,        \* scan machine: "encode", "corrupt" or "decode"
    buf,       \* scan machine: the vector the running loop reads
    idx,       \* scan machine: the index of the running loop
    acc,       \* scan machine: bit4Array, bit7Array or bit8Array
    res,       \* scan machine: what the running loop has produced
    orig,      \* scan machine: buf as it was when the loop started
    reads      \* scan machine: the indexes the loop has read, in order

vars == <<variant, input, pc, file, bits, count, flips, passes, out,
          nibble, sent, word, errs, syndrome, fixed, decoded,
          rng, drawn, prog, argv, source, vec, called, shown, target,
          status, adjust, twin, op, buf, idx, acc, res, orig, reads>>

pipeVars == <<variant, input, file, bits, count, flips, passes, out>>

blockVars == <<nibble, sent, word, errs, syndrome, fixed, decoded>>

rngVars == <<rng, drawn>>

runVars ==
    <<prog, argv, source, vec, called, shown, target, status, adjust>>

scanVars == <<op, buf, idx, acc, res, orig, reads>>

sideVars == <<twin, op, buf, idx, acc, res, orig, reads>>

\* The scan machine and the twin machine have not run.
IdleSide ==
    /\ twin = <<>>
    /\ op = ""
    /\ buf = <<>>
    /\ idx = 0
    /\ acc = <<>>
    /\ res = <<>>
    /\ orig = <<>>
    /\ reads = <<>>

\* No process of the run machine was started, no draw was made.
Idle ==
    /\ rng = FreshRng
    /\ drawn = <<>>
    /\ prog = ""
    /\ argv = <<>>
    /\ source = "file"
    /\ vec = <<>>
    /\ called = ""
    /\ shown = ""
    /\ target = "absent"
    /\ status = "running"
    /\ adjust = 0
    /\ IdleSide

Variants == {"three", "combined"}

\* A byte string with the bytes 0xB4, 0x00 and 0xFF and a mix of nibbles.
SampleFile == <<180, 30, 0, 255, 165, 73>>

\* The input files: every single byte, every run of at most MaxLen
\* consecutive bytes of SampleFile (the empty file included), and the first
\* three bytes of SampleFile (42 code bits, six short of a byte boundary).
Inputs ==
    {<<b>> : b \in 0..MaxByte}
      \cup {SubSeq(SampleFile, w[1], w[2]) :
               w \in {v \in (1..Len(SampleFile)) \X (0..Len(SampleFile)) :
                         v[2] - v[1] + 1 \in 0..MaxLen}}
      \cup {SubSeq(SampleFile, 1, 3)}

\* The 16 nibbles.
Nibbles == {<<a, b, c, d>> : a \in Bit, b \in Bit, c \in Bit, d \in Bit}

(* ------------------------- the file pipelines -------------------------- *)

Init ==
    /\ variant \in Variants
    /\ input \in Inputs
    /\ pc = "start"
    /\ file = <<>>
    /\ bits = <<>>
    /\ count = 0
    /\ flips = 0
    /\ passes = 0
    /\ out = <<>>
    /\ nibble = <<>>
    /\ sent = <<>>
    /\ word = <<>>
    /\ errs = {}
    /\ syndrome = 0
    /\ fixed = <<>>
    /\ decoded = <<>>
    /\ Idle

\* hamming_enc <input> <file>
Encode ==
    /\ variant = "three"
    /\ pc = "start"
    /\ file' = applyHamming(input)
    /\ pc' = "stored"
    /\ UNCHANGED <<variant, input, bits, count, flips, passes, out>>
    /\ UNCHANGED blockVars
    /\ UNCHANGED rngVars
    /\ UNCHANGED runVars
    /\ UNCHANGED sideVars

\* hamming_err <file> <file>: the file is read and turned into bits.
ErrorBegin ==
    /\ variant = "three"
    /\ pc = "stored"
    /\ passes = 0
    /\ bits' = bytesToBits(file)
    /\ count' = 0
    /\ flips' = 0
    /\ pc' = "err"
    /\ UNCHANGED <<variant, input, file, passes, out>>
    /\ UNCHANGED blockVars
    /\ rng' = FreshRng
    /\ drawn' = <<>>
    /\ UNCHANGED runVars
    /\ UNCHANGED sideVars

\* One iteration of the loop of hammingError.  With record, drawn keeps the
\* values the iteration drew; without, the draws leave no trace but the bits.
ErrorGroupWith(record) ==
    /\ pc = "err"
    /\ count < forLimit(bits)
    /\ \E r1 \in Draws :
         IF r1 = Sentinel
         THEN /\ flips < MaxFlips
              /\ \E r2 \in Draws :
                   /\ bits' = hammingErrorGroup(bits, count, r1, r2)
                   /\ drawn' = IF record THEN <<r1, r2>> ELSE <<>>
              /\ flips' = flips + 1
              /\ rng' = randomIntNum(randomIntNum(rng))
         ELSE /\ bits' = hammingErrorGroup(bits, count, r1, 0)
              /\ drawn' = IF record THEN <<r1>> ELSE <<>>
              /\ flips' = flips
              /\ rng' = randomIntNum(rng)
    /\ count' = count + 7
    /\ UNCHANGED <<variant, input, pc, file, passes, out>>
    /\ UNCHANGED blockVars
    /\ UNCHANGED runVars
    /\ UNCHANGED sideVars

ErrorGroup == ErrorGroupWith(FALSE)

ErrorGroupDrawn == ErrorGroupWith(TRUE)

\* The loop of hammingError is over: the bits are packed and written.
ErrorEnd ==
    /\ pc = "err"
    /\ count >= forLimit(bits)
    /\ file' = bitsToBytes(bits, 0)
    /\ passes' = passes + 1
    /\ pc' = "stored"
    /\ UNCHANGED <<variant, input, bits, count, flips, out>>
    /\ UNCHANGED blockVars
    /\ drawn' = <<>>
    /\ UNCHANGED rng
    /\ UNCHANGED runVars
    /\ UNCHANGED sideVars

\* hamming_dec <file> <out>
Decode ==
    /\ variant = "three"
    /\ pc = "stored"
    /\ out' = recoverHamming(file)
    /\ pc' = "done"
    /\ UNCHANGED <<variant, input, file, bits, count, flips, passes>>
    /\ UNCHANGED blockVars
    /\ UNCHANGED rngVars
    /\ UNCHANGED runVars
    /\ UNCHANGED sideVars

\* hamming 0 <input> <file>: the file is read and turned into bits.
ApplyBegin ==
    /\ variant = "combined"
    /\ pc = "start"
    /\ bits' = <<>>
    /\ count' = 0
    /\ flips' = 0
    /\ pc' = "apply"
    /\ UNCHANGED <<variant, input, file, passes, out>>
    /\ UNCHANGED blockVars
    /\ rng' = FreshRng
    /\ drawn' = <<>>
    /\ UNCHANGED runVars
    /\ UNCHANGED sideVars

\* The four iterations of the loop of addHammingParity of hamming.cpp that
\* fill and encode one group; bits is hammingBits.
ApplyGroup ==
    /\ pc = "apply"
    /\ count + 4 <= Len(hamming_bytesToBits(input))
    /\ LET bit4Array == SubSeq(hamming_bytesToBits(input), count + 1, count + 4)
       IN  \E r1 \in Draws :
             IF r1 = Sentinel
             THEN /\ flips < MaxFlips
                  /\ \E r2 \in Draws :
                       bits' = bits \o hamming_hamming7Bits(bit4Array, r1, r2)
                  /\ flips' = flips + 1
                  /\ rng' = randomIntNum(randomIntNum(rng))
             ELSE /\ bits' = bits \o hamming_hamming7Bits(bit4Array, r1, 0)
                  /\ flips' = flips
                  /\ rng' = randomIntNum(rng)
    /\ count' = count + 4
    /\ UNCHANGED <<variant, input, pc, file, passes, out, drawn>>
    /\ UNCHANGED blockVars
    /\ UNCHANGED runVars
    /\ UNCHANGED sideVars

\* The loop of addHammingParity is over: the bits are padded, packed and
\* written.
ApplyEnd ==
    /\ pc = "apply"
    /\ count + 4 > Len(hamming_bytesToBits(input))
    /\ file' = hamming_bitsToBytes(bits, 1)
    /\ pc' = "stored"
    /\ UNCHANGED <<variant, input, bits, count, flips, passes, out>>
    /\ UNCHANGED blockVars
    /\ UNCHANGED rngVars
    /\ UNCHANGED runVars
    /\ UNCHANGED sideVars

\* hamming 1 <file> <out>
Remove ==
    /\ variant = "combined"
    /\ pc = "stored"
    /\ out' = removeHamming(file)
    /\ pc' = "done"
    /\ UNCHANGED <<variant, input, file, bits, count, flips, passes>>
    /\ UNCHANGED blockVars
    /\ UNCHANGED rngVars
    /\ UNCHANGED runVars
    /\ UNCHANGED sideVars

Next ==
    \/ Encode
    \/ ErrorBegin
    \/ ErrorGroup
    \/ ErrorEnd
    \/ Decode
    \/ ApplyBegin
    \/ ApplyGroup
    \/ ApplyEnd
    \/ Remove

Spec == Init /\ [][Next]_vars

(* --------------------------- the block machine ------------------------- *)

\* One nibble is encoded, its codeword is hit by noise, and the word is
\* decoded.  The codeword is kept in stream order: index 0 is position 7.
InitBlock ==
    /\ variant \in Variants
    /\ nibble \in Nibbles
    /\ pc = "nibble"
    /\ input = <<>>
    /\ file = <<>>
    /\ bits = <<>>
    /\ count = 0
    /\ flips = 0
    /\ passes = 0
    /\ out = <<>>
    /\ sent = <<>>
    /\ word = <<>>
    /\ errs = {}
    /\ syndrome = 0
    /\ fixed = <<>>
    /\ decoded = <<>>
    /\ Idle

\* addHammingParity of hamming_enc on the four bits of the nibble.
BlockEncode ==
    /\ variant = "three"
    /\ pc = "nibble"
    /\ sent' = addHammingParity(nibble)
    /\ word' = addHammingParity(nibble)
    /\ errs' = {}
    /\ pc' = "sent"
    /\ UNCHANGED <<nibble, syndrome, fixed, decoded>>
    /\ UNCHANGED pipeVars
    /\ UNCHANGED rngVars
    /\ UNCHANGED runVars
    /\ UNCHANGED sideVars

\* addHammingParity of hamming.cpp on the four bits of the nibble: sent is
\* the group before the error injection, word the group that is emitted.
BlockApply ==
    /\ variant = "combined"
    /\ pc = "nibble"
    /\ sent' = hamming_hamming7Bits(nibble, 0, 0)
    /\ \E r1 \in Draws, r2 \in Draws :
         /\ word' = hamming_hamming7Bits(nibble, r1, r2)
         /\ errs' = IF r1 = Sentinel THEN {7 - r2} ELSE {}
    /\ pc' = "sent"
    /\ UNCHANGED <<nibble, syndrome, fixed, decoded>>
    /\ UNCHANGED pipeVars
    /\ UNCHANGED rngVars
    /\ UNCHANGED runVars
    /\ UNCHANGED sideVars

\* A pass of hammingError over the word whose first draw is the sentinel:
\* the bit at offset r2, that is at position 7 - r2, is inverted.
BlockFlip ==
    /\ pc = "sent"
    /\ Cardinality(errs) < MaxBlockFlips
    /\ \E r2 \in Draws :
         /\ word' = hammingErrorGroup(word, 0, Sentinel, r2)
         /\ errs' = IF (7 - r2) \in errs THEN errs \ {7 - r2}
                                         ELSE errs \cup {7 - r2}
    /\ UNCHANGED <<pc, nibble, sent, syndrome, fixed, decoded>>
    /\ UNCHANGED pipeVars
    /\ UNCHANGED rngVars
    /\ UNCHANGED runVars
    /\ UNCHANGED sideVars

\* hammingCorrection on the word.
BlockDecode ==
    /\ pc = "sent"
    /\ syndrome' = flipBit(word)
    /\ fixed' = correctedWord(word)
    /\ decoded' = IF variant = "three" THEN hammingCorrection(word)
                                       ELSE hamming_hammingCorrection(word)
    /\ pc' = "decoded"
    /\ UNCHANGED <<nibble, sent, word, errs>>
    /\ UNCHANGED pipeVars
    /\ UNCHANGED rngVars
    /\ UNCHANGED runVars
    /\ UNCHANGED sideVars

NextBlock ==
    \/ BlockEncode
    \/ BlockApply
    \/ BlockFlip
    \/ BlockDecode

SpecBlock == InitBlock /\ [][NextBlock]_vars

(* --------------------------- the file machine -------------------------- *)

\* The stored files: every single byte, and every run of at most MaxFileLen
\* consecutive bytes of SampleFile.  They need not come from an encoder.
Files ==
    {<<b>> : b \in 0..MaxByte}
      \cup {SubSeq(SampleFile, w[1], w[2]) :
               w \in {v \in (1..Len(SampleFile)) \X (0..Len(SampleFile)) :
                         v[2] - v[1] + 1 \in 0..MaxFileLen}}

\* hamming_err, hamming_dec or hamming 1 is run on a file that is there.
InitFile ==
    /\ variant \in Variants
    /\ file \in Files
    /\ pc = "stored"
    /\ input = <<>>
    /\ bits = <<>>
    /\ count = 0
    /\ flips = 0
    /\ passes = 0
    /\ out = <<>>
    /\ nibble = <<>>
    /\ sent = <<>>
    /\ word = <<>>
    /\ errs = {}
    /\ syndrome = 0
    /\ fixed = <<>>
    /\ decoded = <<>>
    /\ Idle

NextFile ==
    \/ ErrorBegin
    \/ ErrorGroupDrawn
    \/ ErrorEnd
    \/ Decode
    \/ Remove

SpecFile == InitFile /\ [][NextFile]_vars

(* ---------------------------- the run machine -------------------------- *)

\* One run of one of the four programs: main, readFileBytes, then the
\* transform and writeFileBytes.  Text is a sequence of character codes
\* below 128; unsigned int is kept as <<high half, low half>> of 16 bits.
Half == 2 ^ 16

Mode0 == <<48>>

Mode1 == <<49>>

RECURSIVE BitXor(_, _)
BitXor(a, b) ==
    IF a = 0 THEN b
    ELSE IF b = 0 THEN a
    ELSE (((a % 2) + (b % 2)) % 2) + 2 * BitXor(a \div 2, b \div 2)

\* h * 33 in unsigned int.
timesFactor(h) ==
    LET low  == h[2] * HashFactor
        high == h[1] * HashFactor + (low \div Half)
    IN  <<high % Half, low % Half>>

\* str2int(str, h): 5381 at the terminator, otherwise
\* (str2int(str, h + 1) * 33) ^ str[h].
RECURSIVE str2int(_, _)
str2int(str, h) ==
    IF h >= Len(str)
    THEN <<0, HashSeed>>
    ELSE LET r == timesFactor(str2int(str, h + 1))
         IN  <<r[1], BitXor(r[2], str[h + 1])>>

\* main of hamming.cpp: a missing argv[1] is taken as the empty string.
actionNow(args) == IF Len(args) = 0 THEN <<>> ELSE args[1]

\* The switch of main of hamming.cpp on str2int(actionNow).
modeSwitch(args) ==
    LET h == str2int(actionNow(args), 0)
    IN  IF h = str2int(Mode0, 0) THEN "applyHamming"
        ELSE IF h = str2int(Mode1, 0) THEN "removeHamming"
        ELSE "none"

\* What tellg can return in readFileBytes: the size of a file; -1 when the
\* stream failed to open; for a path that opens and cannot be read (a
\* directory, say) whatever the file system reports, which may be a size
\* that cannot be reserved (as -1) or a size that can (as 0).
tellg(src, content) ==
    CASE src = "file"       -> {Len(content)}
      [] src = "missing"    -> {-1}
      [] src = "unreadable" -> {-1, 0}

\* hammingError on the whole vector; tape holds the values randomIntNum
\* returns, in the order of the calls.
RECURSIVE hammingErrorScan(_, _, _)
hammingErrorScan(boolBitsArray, boolBitsArrayCount, tape) ==
    IF boolBitsArrayCount >= forLimit(boolBitsArray)
    THEN boolBitsArray
    ELSE IF tape[1] = Sentinel
         THEN hammingErrorScan(
                  hammingErrorGroup(boolBitsArray, boolBitsArrayCount,
                                    tape[1], tape[2]),
                  boolBitsArrayCount + 7, SubSeq(tape, 3, Len(tape)))
         ELSE hammingErrorScan(boolBitsArray, boolBitsArrayCount + 7,
                               Tail(tape))

hammingError(boolBitsArray, tape) == hammingErrorScan(boolBitsArray, 0, tape)

\* addHammingParity of hamming.cpp on the whole vector, with the same tape.
RECURSIVE hamming_addHammingParityScan(_, _, _, _)
hamming_addHammingParityScan(intBitsArray, intBitsArrayCount, tape, hammingBits) ==
    IF intBitsArrayCount + 4 > Len(intBitsArray)
    THEN hammingBits
    ELSE LET bit4Array == SubSeq(intBitsArray, intBitsArrayCount + 1,
                                 intBitsArrayCount + 4)
         IN  IF tape[1] = Sentinel
             THEN hamming_addHammingParityScan(
                      intBitsArray, intBitsArrayCount + 4,
                      SubSeq(tape, 3, Len(tape)),
                      hammingBits
                          \o hamming_hamming7Bits(bit4Array, tape[1], tape[2]))
             ELSE hamming_addHammingParityScan(
                      intBitsArray, intBitsArrayCount + 4, Tail(tape),
                      hammingBits
                          \o hamming_hamming7Bits(bit4Array, tape[1], 0))

hamming_addHammingParity(intBitsArray, tape) ==
    hamming_addHammingParityScan(intBitsArray, 0, tape, <<>>)

Programs == {"hamming_enc", "hamming_err", "hamming_dec", "hamming"}

Sources == {"file", "missing", "unreadable"}

\* The contents of the input file of a run.
RunFiles == {<<>>, <<0>>, <<30>>, <<180>>, <<255>>}

\* The characters "0", "1", "2" and the blank.
ModeChars == {48, 49, 50, 32}

\* InaYEfl, hoaYEfl, ioaYEfl and HnaYEfl.
Lookalikes ==
    {<<73, 110, 97, 89, 69, 102, 108>>, <<104, 111, 97, 89, 69, 102, 108>>,
     <<105, 111, 97, 89, 69, 102, 108>>, <<72, 110, 97, 89, 69, 102, 108>>}

\* The mode arguments: the texts of at most MaxArgLen characters of
\* ModeChars, and the texts of Lookalikes.
Modes ==
    UNION {[1..n -> ModeChars] : n \in 0..MaxArgLen} \cup Lookalikes

\* The program is started: hamming with no argument or with a mode, the
\* other programs with their two paths only.
InitRun ==
    /\ prog \in Programs
    /\ argv \in IF prog = "hamming"
                THEN {<<>>} \cup {<<m>> : m \in Modes}
                ELSE {<<>>}
    /\ source \in Sources
    /\ input \in IF source = "file" THEN RunFiles ELSE {<<>>}
    /\ pc = "main"
    /\ variant = IF prog = "hamming" THEN "combined" ELSE "three"
    /\ file = <<>>
    /\ bits = <<>>
    /\ count = 0
    /\ flips = 0
    /\ passes = 0
    /\ out = <<>>
    /\ nibble = <<>>
    /\ sent = <<>>
    /\ word = <<>>
    /\ errs = {}
    /\ syndrome = 0
    /\ fixed = <<>>
    /\ decoded = <<>>
    /\ rng = FreshRng
    /\ drawn = <<>>
    /\ vec = <<>>
    /\ called = ""
    /\ shown = ""
    /\ target = "absent"
    /\ status = "running"
    /\ adjust = 0
    /\ IdleSide

\* main up to the call it makes, or to its return when it makes none.
Main ==
    /\ pc = "main"
    /\ called' = CASE prog = "hamming_enc" -> "applyHamming"
                   [] prog = "hamming_err" -> "errorHamming"
                   [] prog = "hamming_dec" -> "recoverHamming"
                   [] prog = "hamming"     -> modeSwitch(argv)
    /\ shown' = CASE prog = "hamming_enc" -> "Converting to hamming format!"
                  [] prog = "hamming_err" -> "Generating error!"
                  [] prog = "hamming_dec" -> "Correcting error!"
                  [] prog = "hamming" ->
                       CASE modeSwitch(argv) = "applyHamming" ->
                                "Converting file to hamming format!"
                         [] modeSwitch(argv) = "removeHamming" ->
                                "Recovering file from hamming format!"
                         [] OTHER -> "ERROR: Invalid parameters!"
    /\ IF called' = "none"
       THEN /\ status' = "returned"
            /\ pc' = "exited"
       ELSE /\ status' = status
            /\ pc' = "read"
    /\ UNCHANGED <<prog, argv, source, vec, target, adjust>>
    /\ UNCHANGED pipeVars
    /\ UNCHANGED blockVars
    /\ UNCHANGED rngVars
    /\ UNCHANGED sideVars

\* readFileBytes: nothing looks at the state of the stream; reserve throws
\* on a size that cannot be reserved, and nothing catches what it throws.
ReadFileBytes ==
    /\ pc = "read"
    /\ \E fileSize \in tellg(source, input) :
         IF fileSize < 0
         THEN /\ status' = "aborted"
              /\ pc' = "exited"
              /\ vec' = vec
         ELSE /\ status' = status
              /\ pc' = "transform"
              /\ vec' = IF source = "file" THEN input ELSE <<>>
    /\ UNCHANGED <<prog, argv, source, called, shown, target, adjust>>
    /\ UNCHANGED pipeVars
    /\ UNCHANGED blockVars
    /\ UNCHANGED rngVars
    /\ UNCHANGED sideVars

\* The number of calls of randomIntNum the transform can make.
tapeLen(program, function, bytes) ==
    CASE program = "hamming_err" -> 2 * ((8 * Len(bytes)) \div 7)
      [] program = "hamming" /\ function = "applyHamming" ->
             2 * ((8 * Len(bytes)) \div 4)
      [] OTHER -> 0

\* The bytes handed to writeFileBytes.
transform(program, function, bytes, tape) ==
    CASE program = "hamming_enc" -> applyHamming(bytes)
      [] program = "hamming_err" ->
             bitsToBytes(hammingError(bytesToBits(bytes), tape), 0)
      [] program = "hamming_dec" -> recoverHamming(bytes)
      [] program = "hamming" /\ function = "applyHamming" ->
             hamming_bitsToBytes(
                 hamming_addHammingParity(hamming_bytesToBits(bytes), tape), 1)
      [] program = "hamming" /\ function = "removeHamming" ->
             removeHamming(bytes)

\* The transform, then writeFileBytes, then the return of main.  The process
\* is over: its generator is gone with it.
WriteFileBytes ==
    /\ pc = "transform"
    /\ \E tape \in [1..tapeLen(prog, called, vec) -> Draws] :
         file' = transform(prog, called, vec, tape)
    /\ target' = "written"
    /\ status' = "returned"
    /\ pc' = "exited"
    /\ UNCHANGED <<prog, argv, source, vec, called, shown, adjust>>
    /\ UNCHANGED <<variant, input, bits, count, flips, passes, out>>
    /\ UNCHANGED blockVars
    /\ UNCHANGED rngVars
    /\ UNCHANGED sideVars

NextRun ==
    \/ Main
    \/ ReadFileBytes
    \/ WriteFileBytes

SpecRun == InitRun /\ [][NextRun]_vars

(* -------------------------- the adapter machine ------------------------ *)

\* bytesToBits and bitsToBytes of the three programs on their own: a byte
\* string is unpacked and packed again, or a bit vector of any length is
\* packed.
InitAdapter ==
    /\ \/ /\ pc = "bytes"
          /\ input \in Inputs
          /\ bits = <<>>
       \/ /\ pc = "loose"
          /\ input = <<>>
          /\ bits \in UNION {[1..n -> Bit] : n \in 0..MaxBits}
    /\ variant = "three"
    /\ file = <<>>
    /\ count = 0
    /\ flips = 0
    /\ passes = 0
    /\ out = <<>>
    /\ nibble = <<>>
    /\ sent = <<>>
    /\ word = <<>>
    /\ errs = {}
    /\ syndrome = 0
    /\ fixed = <<>>
    /\ decoded = <<>>
    /\ Idle

\* bytesToBits(input)
Unpack ==
    /\ pc = "bytes"
    /\ bits' = bytesToBits(input)
    /\ pc' = "bits"
    /\ UNCHANGED <<variant, input, file, count, flips, passes, out>>
    /\ UNCHANGED blockVars
    /\ UNCHANGED rngVars
    /\ UNCHANGED runVars
    /\ UNCHANGED sideVars

\* bitsToBytes(bits, byteAdjust)
Pack ==
    /\ pc \in {"bits", "loose"}
    /\ \E byteAdjust \in {0, 1} :
         /\ out' = bitsToBytes(bits, byteAdjust)
         /\ adjust' = byteAdjust
    /\ pc' = IF pc = "bits" THEN "packed" ELSE "packed loose"
    /\ UNCHANGED <<variant, input, file, bits, count, flips, passes>>
    /\ UNCHANGED blockVars
    /\ UNCHANGED rngVars
    /\ UNCHANGED <<prog, argv, source, vec, called, shown, target, status>>
    /\ UNCHANGED sideVars

NextAdapter ==
    \/ Unpack
    \/ Pack

SpecAdapter == InitAdapter /\ [][NextAdapter]_vars

(* ---------------------------- the twin machine ------------------------- *)

\* hamming_enc then hamming_err on one side, hamming 0 on the other, run on
\* the same input and fed the same values by randomIntNum, group by group:
\* bits is the vector of hammingError, twin the hammingBits of hamming.cpp.
InitTwin ==
    /\ variant = "both"
    /\ input \in Inputs
    /\ pc = "start"
    /\ file = <<>>
    /\ bits = <<>>
    /\ count = 0
    /\ flips = 0
    /\ passes = 0
    /\ out = <<>>
    /\ nibble = <<>>
    /\ sent = <<>>
    /\ word = <<>>
    /\ errs = {}
    /\ syndrome = 0
    /\ fixed = <<>>
    /\ decoded = <<>>
    /\ Idle

\* The loop of hammingError has an iteration left.
threeHasGroup == count < forLimit(bits)

\* The loop of addHammingParity of hamming.cpp has four more bits to read.
combinedHasGroup ==
    4 * (count \div 7) + 4 <= Len(hamming_bytesToBits(input))

\* hamming_enc has written its file and hamming_err has read it; hamming 0
\* has read the input.
TwinBegin ==
    /\ pc = "start"
    /\ file' = applyHamming(input)
    /\ bits' = bytesToBits(applyHamming(input))
    /\ twin' = <<>>
    /\ count' = 0
    /\ flips' = 0
    /\ rng' = FreshRng
    /\ pc' = "twin"
    /\ UNCHANGED <<variant, input, passes, out, drawn>>
    /\ UNCHANGED blockVars
    /\ UNCHANGED runVars
    /\ UNCHANGED scanVars

\* One iteration of hammingError and the encoding of one group by hamming 0,
\* with the same draws.
TwinGroup ==
    /\ pc = "twin"
    /\ threeHasGroup
    /\ combinedHasGroup
    /\ LET g == count \div 7
           bit4Array == SubSeq(hamming_bytesToBits(input), 4 * g + 1, 4 * g + 4)
       IN  \E r1 \in Draws :
             IF r1 = Sentinel
             THEN /\ flips < MaxFlips
                  /\ \E r2 \in Draws :
                       /\ bits' = hammingErrorGroup(bits, count, r1, r2)
                       /\ twin' = twin \o hamming_hamming7Bits(bit4Array, r1, r2)
                  /\ flips' = flips + 1
                  /\ rng' = randomIntNum(randomIntNum(rng))
             ELSE /\ bits' = hammingErrorGroup(bits, count, r1, 0)
                  /\ twin' = twin \o hamming_hamming7Bits(bit4Array, r1, 0)
                  /\ flips' = flips
                  /\ rng' = randomIntNum(rng)
    /\ count' = count + 7
    /\ UNCHANGED <<variant, input, pc, file, passes, out, drawn>>
    /\ UNCHANGED blockVars
    /\ UNCHANGED runVars
    /\ UNCHANGED scanVars

\* Both loops are over: each program packs its bits and writes its file.
TwinEnd ==
    /\ pc = "twin"
    /\ ~threeHasGroup
    /\ ~combinedHasGroup
    /\ file' = bitsToBytes(bits, 0)
    /\ twin' = hamming_bitsToBytes(twin, 1)
    /\ pc' = "twins"
    /\ UNCHANGED <<variant, input, bits, count, flips, passes, out>>
    /\ UNCHANGED blockVars
    /\ UNCHANGED rngVars
    /\ UNCHANGED runVars
    /\ UNCHANGED scanVars

NextTwin ==
    \/ TwinBegin
    \/ TwinGroup
    \/ TwinEnd

SpecTwin == InitTwin /\ [][NextTwin]_vars

(* ---------------------------- the scan machine ------------------------- *)

\* One operation of the three programs, one loop iteration at a time: pc
\* names the loop that runs, buf is the vector it reads (and cuts back),
\* idx its index, acc the bits collected for the next group, res what it has
\* produced.
Operations == {"encode", "corrupt", "decode"}

\* The inputs: the runs of at most MaxScanLen consecutive bytes of
\* SampleFile.
ScanInputs ==
    {SubSeq(SampleFile, w[1], w[2]) :
        w \in {v \in (1..Len(SampleFile)) \X (0..Len(SampleFile)) :
                  v[2] - v[1] + 1 \in 0..MaxScanLen}}

\* Mutant of advance: the index is left where it is.
advance_stuck(loop, i) == i

\* The increment of the for statement of a loop.
advance(loop, i) == IF loop = "hammingError" THEN i + 7 ELSE i - 1

\* Mutant of resize: the new size is taken two too small.
resize_tooShort(v, n) == SubSeq(v, 1, n - 2)

\* v.resize(n), n not above the size of v.
resize(v, n) == SubSeq(v, 1, n)

\* The C indexes one column loop reads in xorParity / xorOddBitsPos.
xorIndexes(xorBits, octalBitGroupPos) ==
    {octalBitGroupPos + 3 * xorBitsCount :
        xorBitsCount \in 0..((Len(xorBits) \div 3) - 1)}

InitScan ==
    /\ op \in Operations
    /\ input \in ScanInputs
    /\ pc = "bytesToBits"
    /\ buf = input
    /\ orig = input
    /\ idx = Len(input) - 1
    /\ acc = <<>>
    /\ res = <<>>
    /\ reads = <<>>
    /\ twin = <<>>
    /\ variant = "three"
    /\ file = <<>>
    /\ bits = <<>>
    /\ count = 0
    /\ flips = 0
    /\ passes = 0
    /\ out = <<>>
    /\ nibble = <<>>
    /\ sent = <<>>
    /\ word = <<>>
    /\ errs = {}
    /\ syndrome = 0
    /\ fixed = <<>>
    /\ decoded = <<>>
    /\ rng = FreshRng
    /\ drawn = <<>>
    /\ prog = ""
    /\ argv = <<>>
    /\ source = "file"
    /\ vec = <<>>
    /\ called = ""
    /\ shown = ""
    /\ target = "absent"
    /\ status = "running"
    /\ adjust = 0

\* What every step of the scan machine leaves alone.
ScanFrame ==
    /\ UNCHANGED <<variant, input, file, bits, count, flips, passes, out>>
    /\ UNCHANGED blockVars
    /\ UNCHANGED runVars
    /\ UNCHANGED <<twin, op, drawn>>

\* A loop starts on the vector v at the index first.
StartLoop(loop, v, first) ==
    /\ pc' = loop
    /\ buf' = v
    /\ orig' = v
    /\ idx' = first
    /\ acc' = <<>>
    /\ res' = <<>>
    /\ reads' = <<>>

\* One iteration of the outer loop of bytesToBits: the eight bits of the
\* byte at idx, lowest bit first, and the buffer cut back to idx + 1.
BytesToBitsStep ==
    /\ pc = "bytesToBits"
    /\ idx > -1
    /\ reads' = Append(reads, idx)
    /\ res' = res \o Reverse(oneByteBits(buf[idx + 1]))
    /\ buf' = resize(buf, idx + 1)
    /\ idx' = advance(pc, idx)
    /\ UNCHANGED <<pc, orig, acc, rng>>
    /\ ScanFrame

\* bytesToBits returns the reversed bits, and the loop of the operation
\* starts on them.
BytesToBitsEnd ==
    /\ pc = "bytesToBits"
    /\ ~(idx > -1)
    /\ LET v == Reverse(res)
       IN  CASE op = "encode"  -> StartLoop("addHammingParity", v, Len(v) - 1)
             [] op = "corrupt" -> StartLoop("hammingError", v, 0)
             [] op = "decode"  -> StartLoop("removeHammingParity", v,
                                            forLimit(v) - 1)
    /\ UNCHANGED rng
    /\ ScanFrame

\* One iteration of the loop of addHammingParity: the bit at idx joins
\* bit4Array; the fourth one cuts the buffer back and emits a code word.
AddHammingParityStep ==
    /\ pc = "addHammingParity"
    /\ idx > -1
    /\ reads' = Append(reads, idx)
    /\ LET bit4Array == Append(acc, buf[idx + 1])
       IN  IF Len(bit4Array) = 4
           THEN /\ buf' = resize(buf, idx + 1)
                /\ res' = res \o hamming7Bits(Reverse(bit4Array))
                /\ acc' = <<>>
           ELSE /\ acc' = bit4Array
                /\ UNCHANGED <<buf, res>>
    /\ idx' = advance(pc, idx)
    /\ UNCHANGED <<pc, orig, rng>>
    /\ ScanFrame

\* bitsToBytes starts on the vector v of an operation, padded first when
\* byteAdjust is set.
StartBitsToBytes(v, byteAdjust) ==
    LET bitsArray == padToByte(v, byteAdjust)
    IN  StartLoop("bitsToBytes", bitsArray, Len(bitsArray) - 1)

\* addHammingParity returns the reversed code words; applyHamming packs
\* them with padding.
AddHammingParityEnd ==
    /\ pc = "addHammingParity"
    /\ ~(idx > -1)
    /\ StartBitsToBytes(Reverse(res), 1)
    /\ UNCHANGED rng
    /\ ScanFrame

\* One iteration of the loop of hammingError: a draw, and on the value 4 a
\* second draw and the flip of one bit of the group at idx.
HammingErrorStep ==
    /\ pc = "hammingError"
    /\ idx < forLimit(buf)
    /\ \E r1 \in Draws :
         IF r1 = Sentinel
         THEN /\ \E r2 \in Draws :
                   /\ buf' = hammingErrorGroup(buf, idx, r1, r2)
                   /\ reads' = Append(reads, idx + r2)
              /\ rng' = randomIntNum(randomIntNum(rng))
         ELSE /\ buf' = hammingErrorGroup(buf, idx, r1, 0)
              /\ reads' = reads
              /\ rng' = randomIntNum(rng)
    /\ idx' = advance(pc, idx)
    /\ UNCHANGED <<pc, orig, acc, res>>
    /\ ScanFrame

\* hammingError returns the vector; errorHamming packs it without padding.
HammingErrorEnd ==
    /\ pc = "hammingError"
    /\ ~(idx < forLimit(buf))
    /\ StartBitsToBytes(buf, 0)
    /\ UNCHANGED rng
    /\ ScanFrame

\* One iteration of the loop of removeHammingParity: the bit at idx joins
\* bit7Array; the seventh one cuts the buffer back and emits what
\* hammingCorrection returns.
RemoveHammingParityStep ==
    /\ pc = "removeHammingParity"
    /\ idx > -1
    /\ reads' = Append(reads, idx)
    /\ LET bit7Array == Append(acc, buf[idx + 1])
       IN  IF Len(bit7Array) = 7
           THEN /\ buf' = resize(buf, idx + 1)
                /\ res' = res \o hammingCorrection(Reverse(bit7Array))
                /\ acc' = <<>>
           ELSE /\ acc' = bit7Array
                /\ UNCHANGED <<buf, res>>
    /\ idx' = advance(pc, idx)
    /\ UNCHANGED <<pc, orig, rng>>
    /\ ScanFrame

\* removeHammingParity returns the reversed nibbles; recoverHamming packs
\* them without padding.
RemoveHammingParityEnd ==
    /\ pc = "removeHammingParity"
    /\ ~(idx > -1)
    /\ StartBitsToBytes(Reverse(res), 0)
    /\ UNCHANGED rng
    /\ ScanFrame

\* One iteration of the loop of bitsToBytes: the bit at idx joins bit8Array;
\* the eighth one cuts the buffer back and emits a byte.
BitsToBytesStep ==
    /\ pc = "bitsToBytes"
    /\ idx > -1
    /\ reads' = Append(reads, idx)
    /\ LET bit8Array == Append(acc, buf[idx + 1])
       IN  IF Len(bit8Array) = 8
           THEN /\ buf' = resize(buf, idx + 1)
                /\ res' = Append(res, charByte(bit8Array))
                /\ acc' = <<>>
           ELSE /\ acc' = bit8Array
                /\ UNCHANGED <<buf, res>>
    /\ idx' = advance(pc, idx)
    /\ UNCHANGED <<pc, orig, rng>>
    /\ ScanFrame

\* bitsToBytes returns the reversed bytes: the operation is complete.
BitsToBytesEnd ==
    /\ pc = "bitsToBytes"
    /\ ~(idx > -1)
    /\ res' = Reverse(res)
    /\ pc' = "completed"
    /\ UNCHANGED <<buf, idx, acc, orig, reads, rng>>
    /\ ScanFrame

NextScan ==
    \/ BytesToBitsStep
    \/ BytesToBitsEnd
    \/ AddHammingParityStep
    \/ AddHammingParityEnd
    \/ HammingErrorStep
    \/ HammingErrorEnd
    \/ RemoveHammingParityStep
    \/ RemoveHammingParityEnd
    \/ BitsToBytesStep
    \/ BitsToBytesEnd

SpecScan == InitScan /\ [][NextScan]_vars

\* The loops run on: a step that can be taken is eventually taken.
SpecScanFair == SpecScan /\ WF_vars(NextScan)

(* -------------------------- the repeated noise ------------------------- *)

\* hamming_enc, then hamming_err up to MaxPasses times on its own output,
\* then hamming_dec.  The inputs are the single bytes of SampleFile.
TwiceInputs == {<<SampleFile[k]>> : k \in 1..Len(SampleFile)}

InitTwice ==
    /\ variant = "three"
    /\ input \in TwiceInputs
    /\ pc = "start"
    /\ file = <<>>
    /\ bits = <<>>
    /\ count = 0
    /\ flips = 0
    /\ passes = 0
    /\ out = <<>>
    /\ nibble = <<>>
    /\ sent = <<>>
    /\ word = <<>>
    /\ errs = {}
    /\ syndrome = 0
    /\ fixed = <<>>
    /\ decoded = <<>>
    /\ Idle

\* hamming_err <file> <file> once more, on the file a run of hamming_err
\* wrote: a new process, so the generator is seeded again.
ErrorAgain ==
    /\ variant = "three"
    /\ pc = "stored"
    /\ passes \in 1..(MaxPasses - 1)
    /\ bits' = bytesToBits(file)
    /\ count' = 0
    /\ flips' = 0
    /\ pc' = "err"
    /\ UNCHANGED <<variant, input, file, passes, out>>
    /\ UNCHANGED blockVars
    /\ rng' = FreshRng
    /\ drawn' = <<>>
    /\ UNCHANGED runVars
    /\ UNCHANGED sideVars

NextTwice ==
    \/ Encode
    \/ ErrorBegin
    \/ ErrorAgain
    \/ ErrorGroup
    \/ ErrorEnd
    \/ Decode

SpecTwice == InitTwice /\ [][NextTwice]_vars

(* ------------------------ vocabulary of the claims --------------------- *)

\* The bits of a byte string, most significant bit of each byte first.
MsbBits(B) ==
    [j \in 1..(8 * Len(B)) |->
        (B[((j - 1) \div 8) + 1] \div (2 ^ (7 - ((j - 1) % 8)))) % 2]

Xor(a, b) == (a + b) % 2

\* The bit at Hamming position p (1..7) of a 7-bit word in stream order.
AtPos(w, p) == w[8 - p]

\* The parity of the positions whose number has bit 2^k set.
GroupParity(w, k) ==
    Cardinality({p \in 1..7 : ShiftBit(p, k) = 1 /\ AtPos(w, p) = 1}) % 2

\* Positions 7,6,5,4,3,2,1 = d0,d1,d2,P4,d3,P2,P1 with the even-parity
\* completion of the three groups {4,5,6,7}, {2,3,6,7}, {1,3,5,7}.
Layout(d) ==
    <<d[1], d[2], d[3], Xor(Xor(d[1], d[2]), d[3]),
      d[4], Xor(Xor(d[1], d[2]), d[4]), Xor(Xor(d[1], d[3]), d[4])>>

\* The g-th (from 0) group of size n of a bit vector.
Group(v, g, n) == SubSeq(v, n * g + 1, n * g + n)

\* The number of places where two words of the same length differ.
Distance(a, b) == Cardinality({j \in 1..Len(a) : a[j] # b[j]})

(* -------------------------------- claims ------------------------------- *)

\* C1: without corruption, hamming_dec applied to the file hamming_enc
\* wrote returns exactly the input bytes (0xB4 comes back as 0xB4).
C1_RoundTrip ==
    (variant = "three" /\ pc = "done" /\ passes = 0) => out = input

C1_Witness ==
    /\ variant = "three" /\ pc = "done" /\ passes = 0
    /\ input = <<180>> /\ file = <<170, 168>> /\ out = <<180>>

\* C2 as stated: after exactly one flip hammingCorrection returns exactly
\* the nibble and takes the correction branch.
C2_AsStated ==
    (pc = "decoded" /\ Cardinality(errs) = 1) =>
        (decoded = nibble /\ syndrome > 0)

\* C2 amended: after exactly one flip the correction branch is taken
\* (flipBit > 0); hammingCorrection of hamming_dec returns the nibble back to
\* front (d3,d2,d1,d0), which removeHammingParity puts back in stream order,
\* and hammingCorrection of hamming.cpp returns the nibble itself.
C2_SingleFlip ==
    (pc = "decoded" /\ Cardinality(errs) = 1) =>
        /\ syndrome > 0
        /\ variant = "three" =>
              /\ decoded = Reverse(nibble)
              /\ removeHammingParity(word) = nibble
        /\ variant = "combined" => decoded = nibble

C2_Witness ==
    /\ variant = "three" /\ pc = "decoded" /\ errs = {5}
    /\ nibble = <<1, 0, 1, 1>> /\ word = <<1, 0, 0, 0, 1, 0, 1>>
    /\ decoded = <<1, 1, 0, 1>>

\* C3 as stated: decoding the uncorrupted codeword finds syndrome 0, flips
\* no bit and returns exactly the nibble.
C3_AsStated ==
    (pc = "decoded" /\ errs = {}) =>
        (syndrome = 0 /\ fixed = word /\ decoded = nibble)

\* C3 amended: on the uncorrupted codeword the syndrome is 0 and no bit is
\* flipped; hammingCorrection of hamming_dec returns the nibble back to front
\* (removeHammingParity puts it back in stream order), hammingCorrection of
\* hamming.cpp returns the nibble itself.
C3_NoError ==
    (pc = "decoded" /\ errs = {}) =>
        /\ syndrome = 0
        /\ fixed = word
        /\ variant = "three" =>
              /\ decoded = Reverse(nibble)
              /\ removeHammingParity(word) = nibble
        /\ variant = "combined" => decoded = nibble

C3_Witness ==
    /\ variant = "three" /\ pc = "decoded" /\ errs = {}
    /\ nibble = <<0, 1, 0, 0>> /\ word = sent /\ syndrome = 0
    /\ decoded = <<0, 0, 1, 0>>

\* C4: in the codeword the encoder produces for a nibble, each of the three
\* parity groups {1,3,5,7}, {2,3,6,7}, {4,5,6,7} has even parity.
C4_Parity ==
    (pc \in {"sent", "decoded"}) =>
        \A k \in 0..2 : GroupParity(sent, k) = 0

C4_Witness ==
    /\ pc = "sent" /\ variant = "combined" /\ nibble = <<1, 1, 0, 1>>
    /\ sent = <<1, 1, 0, 0, 1, 1, 0>>

\* C5: hamming_dec applied to the file one hamming_err pass made of the file
\* hamming_enc wrote returns exactly the input bytes, whatever was drawn.
C5_Recovery ==
    (variant = "three" /\ pc = "done" /\ passes = 1) => out = input

C5_Witness ==
    /\ variant = "three" /\ pc = "done" /\ passes = 1
    /\ flips = 2 /\ Len(input) = 2
    /\ file # applyHamming(input) /\ out = input

\* C6: mode "1" of hamming.cpp applied to the file mode "0" wrote returns
\* exactly the input bytes, whatever was drawn.
C6_Combined ==
    (variant = "combined" /\ pc = "done") => out = input

C6_Witness ==
    /\ variant = "combined" /\ pc = "done"
    /\ flips = 2 /\ Len(input) = 2 /\ out = input

\* C7: at every point of a hammingError pass each group of seven bits
\* differs from the bits that were read in at most one place; the groups
\* addHammingParity of hamming.cpp emits differ from the uncorrupted
\* codeword of their nibble in at most one place.
C7_OneFlip ==
    /\ (pc = "err") =>
          /\ Len(bits) = 8 * Len(file)
          /\ \A g \in 0..((Len(bits) \div 7) - 1) :
                Distance(Group(bits, g, 7), Group(MsbBits(file), g, 7)) <= 1
    /\ (pc = "apply") =>
          /\ Len(bits) = 7 * (count \div 4)
          /\ \A g \in 0..((count \div 4) - 1) :
                Distance(Group(bits, g, 7),
                         Layout(Group(MsbBits(input), g, 4))) <= 1

C7_Witness ==
    /\ pc = "err" /\ count >= forLimit(bits) /\ flips = 2
    /\ Distance(Group(bits, 0, 7), Group(MsbBits(file), 0, 7)) = 1

\* C8: the seven bits emitted for the nibble d0,d1,d2,d3, in stream order,
\* are d0,d1,d2,P4,d3,P2,P1, by hamming_enc and, when no error is injected,
\* by hamming.cpp.
C8_Layout ==
    /\ (variant = "three" /\ pc = "stored" /\ passes = 0) =>
          /\ 8 * Len(file) >= 14 * Len(input)
          /\ \A g \in 0..(2 * Len(input) - 1) :
                Group(MsbBits(file), g, 7) = Layout(Group(MsbBits(input), g, 4))
    /\ (variant = "combined" /\ pc = "apply" /\ flips = 0) =>
          /\ Len(bits) = 7 * (count \div 4)
          /\ \A g \in 0..((count \div 4) - 1) :
                Group(bits, g, 7) = Layout(Group(MsbBits(input), g, 4))

C8_Witness ==
    /\ variant = "three" /\ pc = "stored" /\ passes = 0
    /\ input = <<180, 30>>
    /\ Group(MsbBits(file), 3, 7) = <<1, 1, 1, 1, 0, 0, 0>>

\* C9 as stated: the nibble 1,0,1,1 is encoded to 1,0,1,0,1,0,0.
C9_AsStated ==
    (pc \in {"sent", "decoded"} /\ nibble = <<1, 0, 1, 1>>) =>
        sent = <<1, 0, 1, 0, 1, 0, 0>>

\* C9 amended: the nibble 1,0,1,1 is encoded to the codeword whose positions
\* 7,6,5,4,3,2,1 are 1,0,1,0,1,0,1 (P1 = 1: d0, d2 and d3 are all 1).
C9_Vector ==
    (pc \in {"sent", "decoded"} /\ nibble = <<1, 0, 1, 1>>) =>
        sent = <<1, 0, 1, 0, 1, 0, 1>>

C9_Witness ==
    /\ pc = "sent" /\ variant = "three" /\ nibble = <<1, 0, 1, 1>>
    /\ errs = {} /\ word = sent

\* C10: for n input bytes hamming_enc writes ceil(14n/8) bytes: the 2n
\* codewords of the nibbles in input order, then zero bits only.
C10_EncodeShape ==
    (variant = "three" /\ pc = "stored" /\ passes = 0) =>
        LET n == Len(input)
            eb == MsbBits(file)
        IN  /\ Len(file) = (14 * n + 7) \div 8
            /\ SubSeq(eb, 1, 14 * n)
                 = Flatten([g \in 1..(2 * n) |->
                               Layout(Group(MsbBits(input), g - 1, 4))])
            /\ \A j \in (14 * n + 1)..Len(eb) : eb[j] = 0

C10_Witness ==
    /\ variant = "three" /\ pc = "stored" /\ passes = 0
    /\ Len(input) = 2 /\ Len(file) = 4 /\ input[2] = 255
    /\ file[4] = 240

\* C11 as stated: the bit sequence hamming_err passes on after the noise
\* pass has exactly 7 * floor(8m / 7) bits, the bits after the last full
\* group being dropped.
C11_AsStated ==
    (variant = "three" /\ pc = "err" /\ count >= forLimit(bits))
        => Len(bits) = 7 * ((8 * Len(file)) \div 7)

\* C11: the noise pass of hamming_err keeps all 8m bits of an m-byte file:
\* the bits after the last full 7-bit group are never touched by the loop,
\* and every bit of the vector, those included, is written to the file.
C11_KeepsTail ==
    /\ (variant = "three" /\ pc = "err")
           => /\ Len(bits) = 8 * Len(file)
              /\ \A j \in (forLimit(bits) + 1)..Len(bits) :
                     bits[j] = MsbBits(file)[j]
    /\ (variant = "three" /\ pc = "stored" /\ passes = 1)
           => /\ MsbBits(file) = bits
              /\ Len(file) * 8 = Len(bits)

C11_Witness ==
    /\ variant = "three"
    /\ pc = "stored"
    /\ passes = 1
    /\ flips > 0
    /\ Len(file) = 3
    /\ forLimit(bits) < Len(bits)
    /\ \E j \in (forLimit(bits) + 1)..Len(bits) : bits[j] = 1

\* The 4-bit results of decoding the full 7-bit groups of v one by one,
\* concatenated in the order of the groups.
DecodedNibbles(v) ==
    Flatten([g \in 1..(Len(v) \div 7) |->
                removeHammingParity(Group(v, g - 1, 7))])

\* C12 as stated: hamming_dec decodes the first k = floor(8m / 7) groups of
\* an m-byte file in order and writes the first floor(4k / 8) bytes of the
\* concatenated 4-bit results: with 4k not a multiple of 8 the last 4 bits
\* are dropped, no leading bits.
C12_AsStated ==
    (variant = "three" /\ pc = "done")
        => LET D == DecodedNibbles(bytesToBits(file))
           IN  MsbBits(out) = SubSeq(D, 1, 8 * (Len(D) \div 8))

\* C13 as stated: in the combined program, for every first argument that is
\* not the text "0" or "1" (a missing one being the empty text), main prints
\* the invalid-parameters message, calls neither applyHamming nor
\* removeHamming, and returns.
C13_AsStated ==
    (prog = "hamming" /\ pc # "main" /\ actionNow(argv) \notin {Mode0, Mode1})
        => /\ called = "none"
           /\ shown = "ERROR: Invalid parameters!"
           /\ status = "returned"
           /\ target = "absent"

\* C14 as stated: in each of the three programs, when the input path cannot
\* be opened or read, the process does not report success and the output
\* file is never created or written.
C14_AsStated ==
    (prog \in {"hamming_enc", "hamming_err", "hamming_dec"} /\ source # "file")
        => /\ status # "returned"
           /\ target = "absent"

\* C15: on every 7-bit word hammingCorrection runs through: the syndrome it
\* assembles is in 0..7, it inverts no bit when the syndrome is 0 and
\* otherwise exactly the bit at vector index 7 - syndrome, which is in 0..6,
\* and it returns exactly 4 bits.
C15_Total ==
    (pc = "decoded")
        => /\ word \in [1..7 -> Bit]
           /\ syndrome \in 0..7
           /\ fixed \in [1..7 -> Bit]
           /\ {j \in 1..7 : fixed[j] # word[j]}
                 = IF syndrome = 0 THEN {} ELSE {(7 - syndrome) + 1}
           /\ (syndrome > 0 => (7 - syndrome) \in 0..6)
           /\ decoded \in [1..4 -> Bit]

C15_Witness ==
    /\ pc = "decoded"
    /\ variant = "three"
    /\ Distance(word, sent) = 2
    /\ syndrome = 7
    /\ fixed # sent
    /\ Len(decoded) = 4

\* C16: for every nibble N and every position p in 1..7, the flipBit
\* assembled for the codeword of N with only position p inverted is p, and
\* the bit hammingCorrection inverts is the one at vector index 7 - p.
C16_Syndrome ==
    (pc = "decoded" /\ Distance(word, sent) = 1)
        => LET p == CHOOSE q \in 1..7 : AtPos(word, q) # AtPos(sent, q)
           IN  /\ syndrome = p
               /\ {j \in 1..7 : fixed[j] # word[j]} = {(7 - p) + 1}

C16_Witness ==
    /\ pc = "decoded"
    /\ nibble = <<1, 0, 1, 1>>
    /\ Distance(word, sent) = 1
    /\ AtPos(word, 6) # AtPos(sent, 6)
    /\ syndrome = 6
    /\ fixed = sent

\* C17: bytesToBits returns 8 |B| bits, byte i at bits 8i..8i+7, most
\* significant bit first; bitsToBytes(bytesToBits(B)) = B; and with
\* byteAdjust = 1 bitsToBytes packs the vector followed by the zero bits
\* that bring its length to the next multiple of 8, none when it already is.
C17_Adapter ==
    /\ (pc \in {"bits", "packed"})
           => /\ Len(bits) = 8 * Len(input)
              /\ \A i \in 0..(Len(input) - 1) : \A o \in 0..7 :
                     bits[8 * i + o + 1] = (input[i + 1] \div (2 ^ (7 - o))) % 2
    /\ (pc = "packed") => out = input
    /\ (pc = "packed loose" /\ adjust = 1)
           => LET pad == (8 - (Len(bits) % 8)) % 8
              IN  /\ 8 * Len(out) = Len(bits) + pad
                  /\ MsbBits(out) = bits \o [z \in 1..pad |-> 0]

C17_Witness ==
    /\ pc = "packed"
    /\ adjust = 1
    /\ input = <<180, 30>>
    /\ bits = <<1, 0, 1, 1, 0, 1, 0, 0, 0, 0, 0, 1, 1, 1, 1, 0>>
    /\ out = <<180, 30>>

\* The calls of rand in a log of the generator.
Rands(log) == Cardinality({i \in 1..Len(log) : log[i] = "rand"})

\* C18: in every iteration of hammingError the first draw is in 0..6; when
\* it is 4, and only then, a second draw r in 0..6 is made and exactly the
\* bit at offset r of the group of the iteration is inverted, so that each
\* of the 7 positions of the group belongs to one r; when it is not 4, no
\* second draw is made and the vector is left as it was.
C18_Decision ==
    [][(pc = "err" /\ pc' = "err")
          => /\ count' = count + 7
             /\ Len(drawn') \in {1, 2}
             /\ drawn'[1] \in 0..6
             /\ Rands(rng'.log) = Rands(rng.log) + Len(drawn')
             /\ IF drawn'[1] = 4
                THEN /\ Len(drawn') = 2
                     /\ drawn'[2] \in 0..6
                     /\ {j \in 1..Len(bits) : bits'[j] # bits[j]}
                           = {count + drawn'[2] + 1}
                     /\ Len(bits') = Len(bits)
                ELSE /\ Len(drawn') = 1
                     /\ bits' = bits]_vars

C18_Witness ==
    /\ pc = "err"
    /\ count = 14
    /\ drawn = <<4, 6>>
    /\ {j \in 1..Len(bits) : bits[j] # bytesToBits(file)[j]} = {14}
    /\ Rands(rng.log) = 3

\* C19: over the calls of randomIntNum made by one process the generator is
\* seeded exactly once, on the first call and before the first value is
\* drawn, and never again: the calls to the C library are none, or one
\* srand followed by rand calls only.
C19_SeedOnce ==
    /\ rng.first = (rng.log = <<>>)
    /\ (rng.log # <<>>)
           => /\ rng.log[1] = "srand"
              /\ Len(rng.log) >= 2
              /\ \A i \in 2..Len(rng.log) : rng.log[i] = "rand"

C19_Witness ==
    /\ variant = "combined"
    /\ pc = "apply"
    /\ flips = 2
    /\ rng.log = <<"srand", "rand", "rand", "rand", "rand", "rand">>

\* The groups of 4 bits of v encoded one by one, each on its own, and the
\* codewords concatenated by the index of their group.
EncodedGroups(v) ==
    Flatten([g \in 1..(Len(v) \div 4) |->
                addHammingParity(Group(v, g - 1, 4))])

\* C20: in encode and in decode the output group i depends on the input
\* group i only: the encoded file holds, group by group, what the encoder
\* gives for each 4-bit group taken alone, and the decoded file what the
\* decoder gives for each 7-bit group taken alone, whatever the other
\* groups are, so the groups can be processed in any order.
C20_Independent ==
    /\ (variant = "three" /\ pc = "stored" /\ passes = 0)
           => LET e == EncodedGroups(MsbBits(input))
              IN  /\ Len(e) = 7 * (2 * Len(input))
                  /\ SubSeq(MsbBits(file), 1, Len(e)) = e
    /\ (variant = "three" /\ pc = "done")
           => LET d == DecodedNibbles(MsbBits(file))
              IN  /\ Len(d) = 4 * ((8 * Len(file)) \div 7)
                  /\ MsbBits(out) = d

C20_Witness ==
    /\ variant = "three"
    /\ pc = "done"
    /\ passes = 1
    /\ flips = 2
    /\ input = <<180, 30>>
    /\ Len(file) = 4
    /\ out = input

\* C21: for every byte sequence B the files hamming_enc followed by one
\* hamming_err pass can write are the files mode 0 of the combined program
\* can write: both programs make their draws for the same groups in the
\* same order, and with the same draws they write the same file; with no
\* first draw equal to 4 this is the one file hamming_enc wrote.
C21_SameFiles ==
    /\ (pc = "twin") => (threeHasGroup <=> combinedHasGroup)
    /\ (pc = "twins")
           => /\ file = twin
              /\ (flips = 0 => file = applyHamming(input))

C21_Witness ==
    /\ pc = "twins"
    /\ input = <<180, 30>>
    /\ flips = 2
    /\ file = twin
    /\ file # applyHamming(input)

\* C22 as stated: on every stored file, made by the encoder or not, the
\* decode pipeline of hamming_dec (backward scans) and the decode pipeline
\* of the combined program (forward scans) write the same bytes.
C22_AsStated ==
    (pc = "done")
        => /\ (variant = "three" => out = removeHamming(file))
           /\ (variant = "combined" => out = recoverHamming(file))

(* ------------------------------- C23, C24 ------------------------------ *)

\* The loops of the scan machine.
Loops == {"bytesToBits", "addHammingParity", "hammingError", "removeHammingParity", "bitsToBytes"}

\* The loops that scan backward and cut their buffer back.
BackwardLoops == Loops \ {"hammingError"}

\* The scan machine and the whole functions agree on what an operation
\* writes.
ScanAgrees ==
    (pc = "completed")
        => /\ (op = "encode" => res = applyHamming(input))
           /\ (op = "decode" => res = recoverHamming(input))
           /\ (op = "corrupt" => Len(res) = Len(input))

\* C23: for every input, encoding, corrupting and decoding complete; every
\* iteration of a scan loop moves its index by exactly one (by 7 in
\* hammingError), and no index is read twice by one loop.
C23_Terminates ==
    /\ <>(pc = "completed")
    /\ [][(pc \in Loops /\ pc' = pc)
             => idx' = (IF pc = "hammingError" THEN idx + 7 ELSE idx - 1)]_vars
    /\ [](\A i, j \in 1..Len(reads) : i # j => reads[i] # reads[j])

\* A two-byte file has been decoded to the end: 16 bits unpacked, 14 of them
\* scanned by removeHammingParity, 8 packed.
C23_Witness ==
    /\ pc = "completed"
    /\ op = "decode"
    /\ Len(input) = 2
    /\ Len(res) = 1
    /\ Len(reads) = 8

\* C24: in the backward loops of the three programs the index about to be
\* read is inside the buffer, the buffer is the original vector cut back to
\* no less than the elements still to be read, and every index read in
\* xorParity and xorOddBitsPos is below the size of that vector.
C24_InBounds ==
    /\ (pc \in BackwardLoops)
           => /\ idx < Len(buf)
              /\ Len(buf) <= Len(orig)
              /\ buf = SubSeq(orig, 1, Len(buf))
              /\ \A k \in 1..Len(reads) : reads[k] > idx /\ reads[k] < Len(orig)
    /\ (pc = "addHammingParity")
           => \A g \in 1..(Len(res) \div 7) :
                 LET bit4Array == SubSeq(orig, Len(orig) - 4 * g + 1, Len(orig) - 4 * g + 4)
                     xorParity == xorParityFrom(bit4Array, 0)
                 IN  \A octalBitGroupPos \in 0..2 :
                        \A i \in xorIndexes(xorParity, octalBitGroupPos) : i < Len(xorParity)
    /\ (pc = "removeHammingParity")
           => \A g \in 1..(Len(res) \div 4) :
                 LET bit7Array == SubSeq(orig, forLimit(orig) - 7 * g + 1, forLimit(orig) - 7 * g + 7)
                     xorOddBitsPos == xorOddBitsPosFrom(bit7Array, 0)
                 IN  \A octalBitGroupPos \in 0..2 :
                        \A i \in xorIndexes(xorOddBitsPos, octalBitGroupPos) : i < Len(xorOddBitsPos)

\* removeHammingParity has cut the buffer back after its first group of a
\* two-group vector and is about to read the second.
C24_Witness ==
    /\ pc = "removeHammingParity"
    /\ Len(orig) = 16
    /\ Len(buf) = 8
    /\ idx = 6
    /\ Len(res) = 4

(* --------------------------------- C25 --------------------------------- *)

\* C25: the sixteen nibbles have sixteen distinct codewords, and the
\* codewords of two different nibbles differ in at least three positions.
C25_DistanceThree ==
    (pc # "nibble" /\ variant = "three")
        => /\ sent = addHammingParity(nibble)
           /\ \A m \in Nibbles \ {nibble} :
                 /\ addHammingParity(m) # sent
                 /\ Distance(sent, addHammingParity(m)) >= 3
           /\ Cardinality({addHammingParity(m) : m \in Nibbles}) = 16

\* 1011 is encoded, and some other codeword is exactly three positions away.
C25_Witness ==
    /\ pc = "sent"
    /\ variant = "three"
    /\ nibble = <<1, 0, 1, 1>>
    /\ sent = <<1, 0, 1, 0, 1, 0, 1>>
    /\ \E m \in Nibbles : Distance(sent, addHammingParity(m)) = 3

(* --------------------------------- C26 --------------------------------- *)

\* The smallest number of bytes that hold n bits.
CeilBytes(n) == (n + 7) \div 8

\* C26: for an input of n bytes (and for every number of bytes up to n + 1)
\* the encoder appends 0, 2, 4 or 6 padding bits to its 14n code bits, the file has ceil(14n / 8) bytes, the noise
\* pass and the decoder see exactly the 2n codewords in it, and the decoded
\* output has n bytes.
C26_Framing ==
    LET n == Len(input)
    IN  /\ (variant = "three" /\ pc = "stored" /\ passes = 0)
               => LET hammingBits == addHammingParity(bytesToBits(input))
                      pad         == Len(padToByte(hammingBits, 1)) - Len(hammingBits)
                      fileBits    == bytesToBits(file)
                  IN  /\ Len(hammingBits) = 14 * n
                      /\ pad \in {0, 2, 4, 6}
                      /\ pad = 8 * CeilBytes(14 * n) - 14 * n
                      /\ \A k \in 0..(n + 1) :
                            LET v == [j \in 1..(14 * k) |-> 0]
                            IN  Len(padToByte(v, 1)) - 14 * k \in {0, 2, 4, 6}
                      /\ Len(fileBits) = 14 * n + pad
                      /\ forLimit(fileBits) \div 7 = 2 * n
                      /\ Len(removeHammingParity(fileBits)) = 8 * n
        /\ (variant = "three" /\ pc \in {"stored", "err", "done"})
               => Len(file) = CeilBytes(14 * n)
        /\ (variant = "three" /\ pc = "err")
               => /\ Len(bits) = 8 * Len(file)
                  /\ forLimit(bits) = 14 * n
        /\ (variant = "three" /\ pc = "done")
               => Len(out) = n

\* A three-byte input, with six padding bits in its file of six bytes, has
\* gone through the noise pass and the decoder.
C26_Witness ==
    /\ variant = "three"
    /\ pc = "done"
    /\ Len(input) = 3
    /\ Len(file) = 6
    /\ passes = 1
    /\ Len(out) = 3

(* --------------------------------- C27 --------------------------------- *)

\* The bitwise exclusive or of two position numbers.
PosXor(p, q) ==
      Xor(ShiftBit(p, 0), ShiftBit(q, 0))
    + Xor(ShiftBit(p, 1), ShiftBit(q, 1)) * 2
    + Xor(ShiftBit(p, 2), ShiftBit(q, 2)) * 4

\* The word carries exactly two inverted bits and has been decoded.
TwoFlipsDecoded ==
    /\ pc = "decoded"
    /\ Cardinality(errs) = 2
    /\ \A p \in 1..7 : (AtPos(word, p) # AtPos(sent, p)) <=> (p \in errs)

\* The data nibble the decoder delivers: what hammingCorrection returns,
\* read back to front in hamming_dec.
Delivered == IF variant = "three" THEN Reverse(decoded) ELSE decoded

\* C27 as stated: a codeword of N with two different positions p and q
\* inverted has the nonzero syndrome p XOR q, is "corrected" by a flip, and
\* hammingCorrection returns four bits that differ from N.
C27_AsStated ==
    TwoFlipsDecoded
        => \E p \in errs, q \in errs :
              /\ p # q
              /\ syndrome = PosXor(p, q)
              /\ syndrome # 0
              /\ fixed # word
              /\ Len(decoded) = 4
              /\ decoded # nibble

\* C27 amended: the same, with the nibble delivered (the returned bits read
\* back to front in hamming_dec) in place of the returned bits; the flip
\* makes a third error, at the position p XOR q.
C27_TwoFlips ==
    TwoFlipsDecoded
        => \E p \in errs, q \in errs :
              /\ p # q
              /\ syndrome = PosXor(p, q)
              /\ syndrome # 0
              /\ syndrome \notin errs
              /\ fixed = FlipAt(word, 7 - syndrome)
              /\ Distance(fixed, sent) = 3
              /\ Len(decoded) = 4
              /\ Delivered # nibble

\* 0001 with positions 3 and 4 inverted in hamming_dec: the syndrome is 7,
\* the data 1000 is delivered, and the four bits returned read 0,0,0,1.
C27_Witness ==
    /\ TwoFlipsDecoded
    /\ variant = "three"
    /\ nibble = <<0, 0, 0, 1>>
    /\ errs = {3, 4}
    /\ syndrome = 7
    /\ decoded = <<0, 0, 0, 1>>
    /\ Delivered = <<1, 0, 0, 0>>

(* --------------------------------- C28 --------------------------------- *)

\* The 128 words of seven bits.
Words == [1..7 -> Bit]

\* The codeword the encoder of the variant makes of a nibble.
Codeword(v, d) == IF v = "three" THEN addHammingParity(d) ELSE hamming_hamming7Bits(d, 0, 0)

\* What the hammingCorrection of the variant returns.
Returned(v, w) == IF v = "three" THEN hammingCorrection(w) ELSE hamming_hammingCorrection(w)

\* C28 as stated: the word after the flip-or-no-flip step has syndrome 0
\* and is the encoder's codeword of the four bits hammingCorrection
\* returns; decoding it again changes nothing.
C28_AsStated ==
    (pc = "decoded")
        => /\ flipBit(fixed) = 0
           /\ fixed = Codeword(variant, decoded)
           /\ correctedWord(fixed) = fixed
           /\ Returned(variant, fixed) = decoded

\* C28 amended: for the word decoded, and for every one of the 128 words,
\* the word after the flip-or-no-flip step has syndrome 0, is at most one
\* bit away from the word, and is the encoder's codeword of the nibble
\* delivered (the returned bits read back to front in hamming_dec);
\* decoding it again changes nothing.
C28_Codeword ==
    (pc = "decoded")
        => /\ flipBit(fixed) = 0
           /\ \A k \in 0..2 : GroupParity(fixed, k) = 0
           /\ Distance(word, fixed) <= 1
           /\ fixed = Codeword(variant, Delivered)
           /\ correctedWord(fixed) = fixed
           /\ Returned(variant, fixed) = decoded
           /\ \A w \in Words :
                 LET c == correctedWord(w)
                     r == Returned(variant, w)
                 IN  /\ flipBit(c) = 0
                     /\ c = Codeword(variant, IF variant = "three" THEN Reverse(r) ELSE r)
                     /\ correctedWord(c) = c
                     /\ Returned(variant, c) = r

\* hamming_dec has decoded a word that is no codeword, two bits away from
\* the codeword sent: it settles on another codeword, whose nibble is not a
\* palindrome.
C28_Witness ==
    /\ pc = "decoded"
    /\ variant = "three"
    /\ Cardinality(errs) = 2
    /\ fixed # word
    /\ fixed # sent
    /\ flipBit(fixed) = 0
    /\ decoded # Reverse(decoded)
    /\ fixed = addHammingParity(Reverse(decoded))

(* --------------------------------- C29 --------------------------------- *)

\* C29: the noise pass returns a vector of the length it was given; a step
\* of its loop leaves every bit from index 7 * floor(len / 7) on, every bit
\* outside the group it is at, and, when its first draw is not 4, the whole
\* vector as they were; the file written has as many bytes as the file read.
C29_Frame ==
    [][/\ (pc = "stored" /\ pc' = "err")
              => Len(bits') = 8 * Len(file)
       /\ (pc = "err" /\ pc' = "err")
              => /\ Len(bits') = Len(bits)
                 /\ \A j \in 1..Len(bits) :
                       (j > 7 * (Len(bits) \div 7) \/ j <= count \/ j > count + 7)
                           => bits'[j] = bits[j]
                 /\ (drawn'[1] # Sentinel) => (bits' = bits)
                 /\ file' = file
       /\ (pc = "err" /\ pc' = "stored")
              => /\ Len(file') = Len(file)
                 /\ MsbBits(file') = bits]_vars

\* A noise pass over a three-byte file has ended with a flip made and with
\* a bit set among the three bits after the last full group.
C29_Witness ==
    /\ variant = "three"
    /\ pc = "stored"
    /\ passes = 1
    /\ flips = 1
    /\ Len(file) = 3
    /\ Len(bits) = 24
    /\ bits[22] + bits[23] + bits[24] > 0

(* --------------------------------- C30 --------------------------------- *)

\* The largest number of positions in which a 7-bit group of the stored
\* file differs from the group the encoder wrote.
WorstGroup ==
    LET clean == MsbBits(applyHamming(input))
        now   == MsbBits(file)
        d     == {Distance(Group(now, g, 7), Group(clean, g, 7)) :
                     g \in 0..((Len(now) \div 7) - 1)}
    IN  IF d = {} THEN 0 ELSE CHOOSE x \in d : \A y \in d : y <= x

\* C30: after a single run of hamming_err the decoder returns the input;
\* the decoder returns other bytes exactly when some codeword carries two or
\* more inverted bits, which takes a second run of hamming_err.
C30_TwoPasses ==
    /\ (pc \in {"stored", "done"} /\ passes <= 1) => WorstGroup <= 1
    /\ (pc = "done" /\ passes <= 1) => out = input
    /\ (pc = "done" /\ out # input) => (passes >= 2 /\ WorstGroup >= 2)
    /\ (pc = "done" /\ WorstGroup >= 2) => out # input

\* Two runs of hamming_err have inverted two bits of one codeword of 0xB4,
\* and hamming_dec has written another byte.
C30_Witness ==
    /\ pc = "done"
    /\ input = <<180>>
    /\ passes = 2
    /\ WorstGroup = 2
    /\ Len(out) = 1
    /\ out # input

====
